---- MODULE Spec2Model ----
(***************************************************************************)
(* A model of the migration service of src/backend: the job coordinator    *)
(* of app.py (start_migration, run_migration, log_migration and the two    *)
(* query handlers) as a state machine of concurrently running threads, and *)
(* the pure analysis functions of storage_checker.py and                   *)
(* migration_engine.py as operators.                                       *)
(*                                                                         *)
(* Time.  The only use app.py makes of the clock that decides anything is  *)
(* the job id, datetime.utcnow().strftime('%Y%m%d_%H%M%S'): the clock cut  *)
(* to whole seconds.  `now' is that second.  Only equality and order of    *)
(* seconds are ever observed, so seconds in which no job was submitted are *)
(* not counted: Tick moves `now' on only when the current second has been  *)
(* used for an id.  time.sleep(2) and time.sleep(3600) both last longer    *)
(* than one second: a sleeping thread goes on only after a Tick.  Threads  *)
(* have no upper bound on their delays.                                    *)
(*                                                                         *)
(* Fields of a job that no property reads (source, destination, files,     *)
(* settings, last_update, current_speed, eta_seconds) are left out; a      *)
(* timestamp that is only ever tested for presence (completed_at,          *)
(* failed_at) is the boolean "the key is set".                             *)
(***************************************************************************)
EXTENDS Integers, Sequences, FiniteSets, TLC

\* Bound: the number of jobs submitted in a behaviour of Spec.
MaxJobs == 3

\* Bound: the number of jobs submitted in a behaviour of SpecCancel.
MaxCancelJobs == 2

\* config.py: MAX_CONCURRENT_MIGRATIONS = int(os.getenv(..., 5))
MAX_CONCURRENT_MIGRATIONS == 5

\* app.py, run_migration: for i in range(10, 101, 10)
LOOP_FIRST == 10
LOOP_STOP == 101
LOOP_STEP == 10

\* app.py, get_migrations: migrations_list[:50]
LIST_LIMIT == 50

\* Bound: the largest size (total, free, required) a capacity check is given.
MaxSize == 12

\* storage_checker.py, __init__: threshold_warning = 0.85 and
\* threshold_critical = 0.95, in thousandths.
THRESHOLD_WARNING == 850
THRESHOLD_CRITICAL == 950

VARIABLES
    now,                \* the current second, as strftime renders the clock
    jobs,               \* the migration_job dicts, in order of creation
    th,                 \* th[j]: the background thread running jobs[j]
    active_migrations,  \* the dict of app.py, in insertion order
    ledger,             \* the file migration_logs.json
    cancel_requested,   \* history: progress of a job when its cancellation was asked
    call,               \* the last call of an analysis function: its arguments
    result              \* and what it returned

vars == <<now, jobs, th, active_migrations, ledger, cancel_requested, call, result>>

coordinator == <<now, jobs, th, active_migrations, ledger>>

JobIx == DOMAIN jobs

Terminal == {"completed", "failed", "cancelled"}

----------------------------------------------------------------------------
(* Python dicts keep insertion order: a dict is the sequence of its entries, *)
(* each entry a record with its key in the field id.                         *)

DictHas(d, k) == \E n \in DOMAIN d : d[n].id = k

DictGet(d, k) == d[CHOOSE n \in DOMAIN d : d[n].id = k]

\* d[k] = e: an existing key keeps its place, a new key goes last.
DictPut(d, k, e) ==
    IF DictHas(d, k)
    THEN [n \in DOMAIN d |-> IF d[n].id = k THEN e ELSE d[n]]
    ELSE Append(d, e)

\* del d[k]
DictDel(d, k) == SelectSeq(d, LAMBDA e : e.id # k)

Take(s, n) == SubSeq(s, 1, IF Len(s) < n THEN Len(s) ELSE n)

----------------------------------------------------------------------------
(* The coordinator.                                                          *)

\* What a lookup answers when there is no record: HTTP 404.
NotFound ==
    [id |-> -1, status |-> "not_found", progress |-> 0, started_at |-> 0,
     completed_at |-> FALSE, failed_at |-> FALSE, error |-> ""]

NoFile == [state |-> "absent", entries |-> <<>>]

InitCoordinator ==
    /\ now = 0
    /\ jobs = <<>>
    /\ th = <<>>
    /\ active_migrations = <<>>
    /\ ledger = NoFile

InitIdle ==
    /\ cancel_requested = <<>>
    /\ call = [fn |-> "none"]
    /\ result = [status |-> "none"]

Init == InitCoordinator /\ InitIdle

\* One second passes.  Every sleeping thread has then slept across a second.
Tick ==
    /\ now' = IF \E j \in JobIx : jobs[j].id = now THEN now + 1 ELSE now
    /\ th' = [j \in DOMAIN th |-> [th[j] EXCEPT !.slept = TRUE]]
    /\ UNCHANGED <<jobs, active_migrations, ledger, cancel_requested, call, result>>

\* start_migration: the id is the clock cut to the second; the job is created
\* initializing, its thread is started, and the job is put in the active set.
StartMigration(limit) ==
    /\ Len(jobs) < limit
    /\ LET j == Len(jobs) + 1
           migration_id == now
           migration_job ==
               [id |-> migration_id, status |-> "initializing", progress |-> 0,
                started_at |-> j, completed_at |-> FALSE, failed_at |-> FALSE,
                error |-> ""]
       IN /\ jobs' = Append(jobs, migration_job)
          /\ th' = Append(th, [pc |-> "l274", i |-> 0, slept |-> FALSE,
                               ret |-> "none", migrations |-> <<>>])
          /\ active_migrations' =
                 DictPut(active_migrations, migration_id,
                         [id |-> migration_id, obj |-> j])
          /\ cancel_requested' = Append(cancel_requested, -1)
    /\ UNCHANGED <<now, ledger, call, result>>

\* The frame every step of thread j shares.
Step(j, from) ==
    /\ j \in JobIx
    /\ th[j].pc = from
    /\ UNCHANGED <<now, cancel_requested, call, result>>

Goto(j, to) == th' = [th EXCEPT ![j].pc = to]

\* run_migration, line 274: migration_job['status'] = 'in_progress'
SetInProgress(j) ==
    /\ Step(j, "l274")
    /\ jobs' = [jobs EXCEPT ![j].status = "in_progress"]
    /\ Goto(j, "l275")
    /\ UNCHANGED <<active_migrations, ledger>>

\* line 275: migration_job['progress'] = 10, then the loop is entered
SetFirstProgress(j) ==
    /\ Step(j, "l275")
    /\ jobs' = [jobs EXCEPT ![j].progress = LOOP_FIRST]
    /\ th' = [th EXCEPT ![j].pc = "l279", ![j].i = LOOP_FIRST, ![j].slept = FALSE]
    /\ UNCHANGED <<active_migrations, ledger>>

\* Work that goes on only while no other job is in progress: a mutant.
WorkInTurn(j) ==
    /\ Step(j, "l279")
    /\ th[j].slept
    /\ \A k \in JobIx \ {j} : jobs[k].status # "in_progress"
    /\ jobs' = [jobs EXCEPT ![j].progress = th[j].i]
    /\ Goto(j, "l293")
    /\ UNCHANGED <<active_migrations, ledger>>

\* lines 279-290: time.sleep(2), then progress = i (with last_update, speed, eta)
Work(j) ==
    /\ Step(j, "l279")
    /\ th[j].slept
    /\ jobs' = [jobs EXCEPT ![j].progress = th[j].i]
    /\ Goto(j, "l293")
    /\ UNCHANGED <<active_migrations, ledger>>

\* line 293: active_migrations[migration_id] = migration_job, then the next i
SaveProgress(j) ==
    /\ Step(j, "l293")
    /\ active_migrations' =
           DictPut(active_migrations, jobs[j].id, [id |-> jobs[j].id, obj |-> j])
    /\ IF th[j].i + LOOP_STEP < LOOP_STOP
       THEN th' = [th EXCEPT ![j].pc = "l279", ![j].i = th[j].i + LOOP_STEP,
                             ![j].slept = FALSE]
       ELSE Goto(j, "l296")
    /\ UNCHANGED <<jobs, ledger>>

\* line 296: migration_job['status'] = 'completed'
SetCompleted(j) ==
    /\ Step(j, "l296")
    /\ jobs' = [jobs EXCEPT ![j].status = "completed"]
    /\ Goto(j, "l297")
    /\ UNCHANGED <<active_migrations, ledger>>

\* line 297: migration_job['completed_at'] = ...
SetCompletedAt(j) ==
    /\ Step(j, "l297")
    /\ jobs' = [jobs EXCEPT ![j].completed_at = TRUE]
    /\ Goto(j, "l298")
    /\ UNCHANGED <<active_migrations, ledger>>

\* line 298: migration_job['progress'] = 100, then log_migration is called
SetFullProgress(j) ==
    /\ Step(j, "l298")
    /\ jobs' = [jobs EXCEPT ![j].progress = 100]
    /\ th' = [th EXCEPT ![j].pc = "log_load", ![j].ret = "l304"]
    /\ UNCHANGED <<active_migrations, ledger>>

\* log_migration returns to its caller: to the sleep of line 304, or to the
\* end of the except handler.
Return(j) ==
    th' = [th EXCEPT ![j].pc = th[j].ret, ![j].ret = "none",
                     ![j].migrations = <<>>, ![j].slept = FALSE]

\* log_migration, lines 320-325: the existing records are loaded.  A file that
\* another thread has opened for writing and not yet written is empty:
\* json.load raises, the except of line 334 logs it, and nothing is written.
LogLoad(j) ==
    /\ Step(j, "log_load")
    /\ CASE ledger.state = "absent" -> Goto(j, "log_open")
         [] ledger.state = "valid" ->
                th' = [th EXCEPT ![j].pc = "log_open",
                                 ![j].migrations = ledger.entries]
         [] OTHER -> Return(j)
    /\ UNCHANGED <<jobs, active_migrations, ledger>>

\* lines 328-331: migrations[id] = migration_job; open(..., 'w') empties the file
LogOpen(j) ==
    /\ Step(j, "log_open")
    /\ ledger' = [state |-> "truncated", entries |-> <<>>]
    /\ Goto(j, "log_dump")
    /\ UNCHANGED <<jobs, active_migrations>>

\* line 332: json.dump(migrations, f), and the file is closed
LogDump(j) ==
    /\ Step(j, "log_dump")
    /\ ledger' = [state |-> "valid",
                  entries |-> DictPut(th[j].migrations, jobs[j].id, jobs[j])]
    /\ Return(j)
    /\ UNCHANGED <<jobs, active_migrations>>

\* line 304: time.sleep(3600)
EvictionSleep(j) ==
    /\ Step(j, "l304")
    /\ th[j].slept
    /\ Goto(j, "l305")
    /\ UNCHANGED <<jobs, active_migrations, ledger>>

\* line 305: if migration_id in active_migrations
EvictionTest(j) ==
    /\ Step(j, "l305")
    /\ IF DictHas(active_migrations, jobs[j].id)
       THEN Goto(j, "l306")
       ELSE Goto(j, "done")
    /\ UNCHANGED <<jobs, active_migrations, ledger>>

\* line 306: del active_migrations[migration_id]; a missing key raises
\* KeyError, which the except of line 310 catches.
Evict(j) ==
    /\ Step(j, "l306")
    /\ IF DictHas(active_migrations, jobs[j].id)
       THEN /\ active_migrations' = DictDel(active_migrations, jobs[j].id)
            /\ Goto(j, "done")
       ELSE /\ Goto(j, "l311")
            /\ UNCHANGED active_migrations
    /\ UNCHANGED <<jobs, ledger>>

\* line 311: migration_job['status'] = 'failed'
SetFailed(j) ==
    /\ Step(j, "l311")
    /\ jobs' = [jobs EXCEPT ![j].status = "failed"]
    /\ Goto(j, "l312")
    /\ UNCHANGED <<active_migrations, ledger>>

\* line 312: migration_job['error'] = str(e)
SetError(j) ==
    /\ Step(j, "l312")
    /\ jobs' = [jobs EXCEPT ![j].error = "KeyError"]
    /\ Goto(j, "l313")
    /\ UNCHANGED <<active_migrations, ledger>>

\* line 313: migration_job['failed_at'] = ..., then log_migration is called
SetFailedAt(j) ==
    /\ Step(j, "l313")
    /\ jobs' = [jobs EXCEPT ![j].failed_at = TRUE]
    /\ th' = [th EXCEPT ![j].pc = "log_load", ![j].ret = "done"]
    /\ UNCHANGED <<active_migrations, ledger>>

\* get_migration_status over a given state: the active set first, then the
\* file; a file that cannot be read or parsed answers like a missing record.
Lookup(active, file, objs, id) ==
    IF DictHas(active, id)
    THEN objs[DictGet(active, id).obj]
    ELSE IF file.state = "valid" /\ DictHas(file.entries, id)
         THEN DictGet(file.entries, id)
         ELSE NotFound

GetMigrationStatus(id) == Lookup(active_migrations, ledger, jobs, id)

\* get_migrations: the active jobs, then the records of the file, cut to 50
GetMigrations ==
    Take([n \in DOMAIN active_migrations |-> jobs[active_migrations[n].obj]]
             \o (IF ledger.state = "valid" THEN ledger.entries ELSE <<>>),
         LIST_LIMIT)

\* A request to cancel job j.  app.py registers no route and defines no
\* function that cancels a job, and run_migration reads no cancellation
\* flag: the request is answered 404 and changes nothing in the program.
\* The history variable records the job's progress when it was asked.
CancelJob(j) ==
    /\ j \in JobIx
    /\ cancel_requested[j] = -1
    /\ jobs[j].status \notin Terminal
    /\ cancel_requested' = [cancel_requested EXCEPT ![j] = jobs[j].progress]
    /\ UNCHANGED <<coordinator, call, result>>

\* The service: the clock, the submissions, and one step of one thread of
\* run_migration (with the log_migration it calls).
Next ==
    \/ Tick
    \/ StartMigration(MaxJobs)
    \/ \E j \in JobIx : SetInProgress(j)
    \/ \E j \in JobIx : SetFirstProgress(j)
    \/ \E j \in JobIx : Work(j)
    \/ \E j \in JobIx : SaveProgress(j)
    \/ \E j \in JobIx : SetCompleted(j)
    \/ \E j \in JobIx : SetCompletedAt(j)
    \/ \E j \in JobIx : SetFullProgress(j)
    \/ \E j \in JobIx : LogLoad(j)
    \/ \E j \in JobIx : LogOpen(j)
    \/ \E j \in JobIx : LogDump(j)
    \/ \E j \in JobIx : EvictionSleep(j)
    \/ \E j \in JobIx : EvictionTest(j)
    \/ \E j \in JobIx : Evict(j)
    \/ \E j \in JobIx : SetFailed(j)
    \/ \E j \in JobIx : SetError(j)
    \/ \E j \in JobIx : SetFailedAt(j)

Spec == Init /\ [][Next]_vars

\* The admission of jobs alone: submissions and the first step of each
\* thread, with room for one job more than the configured cap.  Every
\* behaviour of it is the beginning of a behaviour of the service.
NextAdmission ==
    \/ Tick
    \/ StartMigration(MAX_CONCURRENT_MIGRATIONS + 1)
    \/ \E j \in JobIx : SetInProgress(j)

SpecAdmission == Init /\ [][NextAdmission]_vars

\* The service with callers that also ask for cancellation.
NextCancel ==
    \/ Tick
    \/ StartMigration(MaxCancelJobs)
    \/ \E j \in JobIx : SetInProgress(j)
    \/ \E j \in JobIx : SetFirstProgress(j)
    \/ \E j \in JobIx : Work(j)
    \/ \E j \in JobIx : SaveProgress(j)
    \/ \E j \in JobIx : SetCompleted(j)
    \/ \E j \in JobIx : SetCompletedAt(j)
    \/ \E j \in JobIx : SetFullProgress(j)
    \/ \E j \in JobIx : LogLoad(j)
    \/ \E j \in JobIx : LogOpen(j)
    \/ \E j \in JobIx : LogDump(j)
    \/ \E j \in JobIx : EvictionSleep(j)
    \/ \E j \in JobIx : EvictionTest(j)
    \/ \E j \in JobIx : Evict(j)
    \/ \E j \in JobIx : SetFailed(j)
    \/ \E j \in JobIx : SetError(j)
    \/ \E j \in JobIx : SetFailedAt(j)
    \/ \E j \in JobIx : CancelJob(j)

SpecCancel == Init /\ [][NextCancel]_vars

----------------------------------------------------------------------------
(* The claims about the coordinator.                                         *)

Ids == {jobs[j].id : j \in JobIx}

InProgress == {j \in JobIx : jobs[j].status = "in_progress"}

\* The record of the file under the id of job j is the job as it is now.
Logged(j) ==
    /\ ledger.state = "valid"
    /\ DictHas(ledger.entries, jobs[j].id)
    /\ DictGet(ledger.entries, jobs[j].id) = jobs[j]

\* C1: in every reachable state at most MAX_CONCURRENT_MIGRATIONS jobs have
\* status in_progress.
C1_ConcurrencyCap == Cardinality(InProgress) <= MAX_CONCURRENT_MIGRATIONS

\* C2: the status get_job reports for an id never leaves a terminal status:
\* once it is completed, failed or cancelled, it is the same in the next state.
C2_TerminalIsFinal ==
    [][\A id \in Ids :
          GetMigrationStatus(id).status \in Terminal
              => Lookup(active_migrations', ledger', jobs', id).status
                     = GetMigrationStatus(id).status]_vars

\* C3: every job that has reached a terminal status is retrievable by
\* get_job(id), also after its eviction from the active set.  (The states in
\* which the file is being rewritten are left out in the claim's favour.)
C3_HistoricalPersistence ==
    \A j \in JobIx :
        jobs[j].status \in Terminal /\ ledger.state # "truncated"
            => GetMigrationStatus(jobs[j].id) # NotFound

\* C4: any two submissions have distinct job ids.
C4_UniqueIds ==
    \A j, k \in JobIx : j # k => jobs[j].id # jobs[k].id

\* C5: whatever a reader gets for an id is a consistent snapshot: completed
\* comes with progress 100 and completed_at, failed with error and failed_at.
C5_ConsistentSnapshot ==
    \A id \in Ids :
        LET m == GetMigrationStatus(id)
        IN /\ m.status = "completed" => m.progress = 100 /\ m.completed_at
           /\ m.status = "failed" => m.error # "" /\ m.failed_at

\* C6: a job whose cancellation was asked while it was not terminal is
\* cancelled, a running one at the latest after one more unit of work.
C6_Cancellation ==
    \A j \in JobIx :
        cancel_requested[j] >= 0
            => \/ jobs[j].status = "cancelled"
               \/ /\ jobs[j].status \in {"initializing", "in_progress"}
                  /\ jobs[j].progress <= cancel_requested[j] + LOOP_STEP

\* C7: a job whose routine has worked through all its units and ended is
\* completed with progress 100 and completed_at, and that record is the one
\* in the ledger.  (No unit of work raises: every routine that ends has
\* worked through all of them.)
C7_Completion ==
    \A j \in JobIx :
        th[j].pc = "done" /\ ledger.state # "truncated"
            => /\ jobs[j].status = "completed"
               /\ jobs[j].progress = 100
               /\ jobs[j].completed_at
               /\ Logged(j)

\* C8: a job whose routine ended in the except handler is failed with error
\* and failed_at set, and that record is the one in the ledger.
C8_Failure ==
    \A j \in JobIx :
        th[j].pc = "done" /\ jobs[j].error # "" /\ ledger.state # "truncated"
            => /\ jobs[j].status = "failed"
               /\ jobs[j].failed_at
               /\ Logged(j)

\* Every job a caller can know of: the active ones and the logged ones.
KnownJobs ==
    {jobs[active_migrations[n].obj] : n \in DOMAIN active_migrations}
        \cup (IF ledger.state = "valid"
              THEN {ledger.entries[n] : n \in DOMAIN ledger.entries}
              ELSE {})

\* C9: list_jobs returns the LIST_LIMIT most recently created of the known
\* jobs, the latest first.
C9_MostRecentFirst ==
    LET listed == GetMigrations
        created == {m.started_at : m \in KnownJobs}
        latest == {s \in created :
                      Cardinality({t \in created : t > s}) < LIST_LIMIT}
    IN /\ \A m, n \in DOMAIN listed :
              m < n => listed[m].started_at > listed[n].started_at
       /\ {listed[n].started_at : n \in DOMAIN listed} = latest

----------------------------------------------------------------------------
(* storage_checker.py.  Sizes are counted in units of a tenth of a GiB, in  *)
(* which the figures of the two simulated devices are whole numbers.        *)
(* psutil reports usage.percent with one decimal; percent_used =            *)
(* usage.percent / 100 is kept in thousandths, which is exact: p / 10 / 100 *)
(* >= 0.85 in floating point exactly when p >= 850, for every p in 0..1000, *)
(* and likewise for 0.95.  free - required >= total * 0.1 compares whole    *)
(* numbers with a tenth of a whole number, and holds in floating point      *)
(* exactly when 10 * (free - required) >= total.                            *)

\* _simulate_external_storage: 128 GiB, 35% used
SimulateExternalStorage ==
    [raises |-> FALSE, total |-> 1280, used |-> 448, free |-> 832, percent |-> 350]

\* _check_database_storage: 500 GiB, 42% used
CheckDatabaseStorage ==
    [raises |-> FALSE, total |-> 5000, used |-> 2100, free |-> 2900, percent |-> 420]

\* check_capacity, lines 47-56, with the fit tested before the warning
\* threshold: a mutant.
DetermineStatusFitFirst(percent_used, fits, fits_with_margin) ==
    IF percent_used >= THRESHOLD_CRITICAL THEN "critical"
    ELSE IF ~fits THEN "insufficient"
    ELSE IF percent_used >= THRESHOLD_WARNING THEN "warning"
    ELSE IF ~fits_with_margin THEN "marginal"
    ELSE "healthy"

\* check_capacity, lines 47-56, with > where the code has >=: a mutant.
DetermineStatusStrict(percent_used, fits, fits_with_margin) ==
    IF percent_used > THRESHOLD_CRITICAL THEN "critical"
    ELSE IF percent_used > THRESHOLD_WARNING THEN "warning"
    ELSE IF ~fits THEN "insufficient"
    ELSE IF ~fits_with_margin THEN "marginal"
    ELSE "healthy"

\* check_capacity, lines 47-56: the status
DetermineStatus(percent_used, fits, fits_with_margin) ==
    IF percent_used >= THRESHOLD_CRITICAL THEN "critical"
    ELSE IF percent_used >= THRESHOLD_WARNING THEN "warning"
    ELSE IF ~fits THEN "insufficient"
    ELSE IF ~fits_with_margin THEN "marginal"
    ELSE "healthy"

\* check_capacity(device_info, required_size); disk_usage is what
\* psutil.disk_usage answers, or that it raises.
CheckCapacity(device_type, disk_usage, required_size) ==
    LET usage ==
            IF device_type = "local" THEN disk_usage
            ELSE IF device_type \in {"phone", "external"} THEN SimulateExternalStorage
            ELSE IF device_type = "database" THEN CheckDatabaseStorage
            ELSE disk_usage
    IN IF usage.raises
       THEN [status |-> "error", fits |-> FALSE, fits_with_margin |-> FALSE]
       ELSE LET total == usage.total
                used == usage.used
                free == usage.free
                percent_used == usage.percent
                fits == free >= required_size
                fits_with_margin == 10 * (free - required_size) >= total
            IN [status |-> DetermineStatus(percent_used, fits, fits_with_margin),
                total_bytes |-> total,
                used_bytes |-> used,
                free_bytes |-> free,
                percent_used |-> percent_used,
                fits |-> fits,
                fits_with_margin |-> fits_with_margin,
                required_bytes |-> required_size,
                available_after_migration |-> free - required_size]

\* The values of device_info['type'] that check_capacity tells apart, and one
\* it does not know.
DeviceTypes == {"local", "phone", "external", "database", "unknown"}

\* usage.percent around the two thresholds and at the ends of its range
PercentSamples == {0, 500, 849, 850, 851, 949, 950, 951, 1000}

DiskUsages ==
    {[raises |-> TRUE]} \cup
    {[raises |-> FALSE, total |-> t, used |-> t - f, free |-> f, percent |-> p] :
        t \in 1..MaxSize, f \in 0..MaxSize, p \in PercentSamples}

NoResult == [status |-> "none"]

\* The calls of check_capacity a caller can make.
CapacityCalls ==
    {[fn |-> "check_capacity", device_type |-> device_type,
      disk_usage |-> disk_usage, required_size |-> required_size] :
        device_type \in DeviceTypes,
        disk_usage \in {u \in DiskUsages : ~u.raises => u.free <= u.total},
        required_size \in 0..MaxSize}

InitCapacity ==
    /\ InitCoordinator
    /\ cancel_requested = <<>>
    /\ call \in CapacityCalls
    /\ result = NoResult

\* The call is answered.
CallCheckCapacity ==
    /\ call.fn = "check_capacity"
    /\ result = NoResult
    /\ result' = CheckCapacity(call.device_type, call.disk_usage, call.required_size)
    /\ UNCHANGED <<coordinator, cancel_requested, call>>

NextCapacity == CallCheckCapacity

SpecCapacity == InitCapacity /\ [][NextCapacity]_vars

\* C10: the status is error if the storage query fails; else critical if
\* percent_used >= 0.95; else warning if percent_used >= 0.85; else
\* insufficient if free < required; else marginal if free - required is less
\* than a tenth of total; else healthy.
C10_StatusPriority ==
    call.fn = "check_capacity" /\ result.status # "none" =>
        LET queried == call.device_type \notin {"phone", "external", "database"}
        IN IF queried /\ call.disk_usage.raises
           THEN result.status = "error"
           ELSE result.status =
                    (IF result.percent_used >= 950 THEN "critical"
                     ELSE IF result.percent_used >= 850 THEN "warning"
                     ELSE IF result.free_bytes < result.required_bytes
                          THEN "insufficient"
                     ELSE IF 10 * (result.free_bytes - result.required_bytes)
                                 < result.total_bytes
                          THEN "marginal"
                     ELSE "healthy")

\* C10, its case: a queried device below 85% with room for the data and the
\* margin is reported healthy.
C10_Witness ==
    /\ call.fn = "check_capacity"
    /\ call.device_type = "local"
    /\ ~call.disk_usage.raises
    /\ call.disk_usage.percent = 849
    /\ call.disk_usage.free = call.required_size + 1
    /\ call.disk_usage.total = 10
    /\ result.status = "healthy"

----------------------------------------------------------------------------
(* compare_storage.                                                         *)

\* compare_storage with the data size given to the source's check instead of
\* the destination's: a mutant.
CompareStorageSwapped(source_type, source_usage, dest_type, dest_usage, data_size) ==
    LET source_check == CheckCapacity(source_type, source_usage, data_size)
        dest_check == CheckCapacity(dest_type, dest_usage, 0)
        dest_free == IF "free_bytes" \in DOMAIN dest_check
                     THEN dest_check.free_bytes ELSE 0
        can_migrate == dest_check.fits
        can_migrate_safely == dest_check.fits_with_margin
    IN [source |-> source_check,
        destination |-> dest_check,
        can_migrate |-> can_migrate,
        can_migrate_safely |-> can_migrate_safely,
        size_difference |-> dest_free - data_size,
        warnings |->
            (IF ~can_migrate
             THEN <<"Destination has insufficient space for migration">>
             ELSE IF ~can_migrate_safely
             THEN <<"Destination will have less than 10% free space after migration">>
             ELSE <<>>)
            \o (IF source_check.status = "critical"
                THEN <<"Source storage is critically full">>
                ELSE <<>>)]

\* compare_storage(source_info, dest_info, data_size): the source is checked
\* with no required size, the destination with the data size.
CompareStorage(source_type, source_usage, dest_type, dest_usage, data_size) ==
    LET source_check == CheckCapacity(source_type, source_usage, 0)
        dest_check == CheckCapacity(dest_type, dest_usage, data_size)
        dest_free == IF "free_bytes" \in DOMAIN dest_check
                     THEN dest_check.free_bytes ELSE 0
        can_migrate == dest_check.fits
        can_migrate_safely == dest_check.fits_with_margin
    IN [source |-> source_check,
        destination |-> dest_check,
        can_migrate |-> can_migrate,
        can_migrate_safely |-> can_migrate_safely,
        size_difference |-> dest_free - data_size,
        warnings |->
            (IF ~can_migrate
             THEN <<"Destination has insufficient space for migration">>
             ELSE IF ~can_migrate_safely
             THEN <<"Destination will have less than 10% free space after migration">>
             ELSE <<>>)
            \o (IF source_check.status = "critical"
                THEN <<"Source storage is critically full">>
                ELSE <<>>)]

\* What a disk of the given total and free space reports when nothing of it
\* is reserved: used = total - free, percent = used / total.
UsageOf(total, free) ==
    [raises |-> FALSE, total |-> total, used |-> total - free, free |-> free,
     percent |-> (1000 * (total - free)) \div total]

\* Totals, free spaces and data sizes around the scenario's 1000, 350, 500,
\* 50 and 60 GB (in tenths).
CompareTotals == {5000, 10000}
CompareFrees == {0, 500, 600, 1100, 3500}
CompareSizes == {0, 600, 3500}

CompareUsages ==
    {[raises |-> TRUE]} \cup {UsageOf(t, f) : t \in CompareTotals, f \in CompareFrees}

CompareCalls ==
    {[fn |-> "compare_storage", source_type |-> st, source_usage |-> su,
      dest_type |-> dt, dest_usage |-> du, data_size |-> n] :
        st \in DeviceTypes, su \in CompareUsages,
        dt \in DeviceTypes, du \in CompareUsages, n \in CompareSizes}

InitCompare ==
    /\ InitCoordinator
    /\ cancel_requested = <<>>
    /\ call \in CompareCalls
    /\ result = NoResult

\* The call is answered.
CallCompareStorage ==
    /\ call.fn = "compare_storage"
    /\ result = NoResult
    /\ result' = CompareStorage(call.source_type, call.source_usage,
                                call.dest_type, call.dest_usage, call.data_size)
    /\ UNCHANGED <<coordinator, cancel_requested, call>>

NextCompare == CallCompareStorage

SpecCompare == InitCompare /\ [][NextCompare]_vars

\* The scenario: A local, 1000 GB of which 350 free; B local, 500 GB of which
\* 50 free; 60 GB of data.
C11_Scenario ==
    /\ call.fn = "compare_storage"
    /\ call.source_type = "local" /\ call.source_usage = UsageOf(10000, 3500)
    /\ call.dest_type = "local" /\ call.dest_usage = UsageOf(5000, 500)
    /\ call.data_size = 600
    /\ "destination" \in DOMAIN result

\* C11 as stated: in the scenario the destination is insufficient, does not
\* fit, and the comparison cannot migrate.
C11_ScenarioInsufficient ==
    C11_Scenario =>
        /\ result.destination.status = "insufficient"
        /\ ~result.destination.fits
        /\ ~result.can_migrate

\* C11 as amended: in the scenario the destination, 90% used, has status
\* warning (the usage threshold is decided before the fit), does not fit,
\* and the comparison cannot migrate.
C11_ScenarioWarning ==
    C11_Scenario =>
        /\ result.destination.status = "warning"
        /\ ~result.destination.fits
        /\ ~result.can_migrate

\* C11, its case: the scenario's call has been answered.
C11_Witness == C11_Scenario /\ result.destination.percent_used = 900

----------------------------------------------------------------------------
(* migration_engine.py, check_compatibility.  An endpoint is the dict the   *)
(* caller passes, cut to the keys the score reads: type, os and protocol.   *)
(* A key the dict does not hold is Missing.  The issues and recommendations *)
(* of the report are lists of texts that no property reads; they are left   *)
(* out.                                                                     *)

Missing == "<missing>"

\* __init__: supported_formats['databases'] and ['devices']
SupportedDatabases ==
    {"mysql", "postgresql", "mongodb", "sqlite", "oracle", "sqlserver"}
SupportedDevices == {"phone", "computer", "server", "nas", "cloud"}

\* dict.get(key, default)
GetOr(value, default) == IF value = Missing THEN default ELSE value

\* source.get('os'), tested for truth: a missing and an empty os are false
Truthy(value) == value # Missing /\ value # ""

\* check_compatibility deducting for an unsupported kind once, whichever
\* endpoint has it: a mutant.
CheckCompatibilityOnce(source, destination) ==
    LET supported == SupportedDevices \cup SupportedDatabases
        s1 == IF source.type \notin supported \/ destination.type \notin supported
              THEN 100 - 30 ELSE 100
        s3 == IF /\ source.type \in SupportedDatabases
                 /\ destination.type \in SupportedDatabases
                 /\ source.type # destination.type
              THEN s1 - 20 ELSE s1
        s4 == IF /\ Truthy(source.os) /\ Truthy(destination.os)
                 /\ source.os # destination.os
              THEN s3 - 10 ELSE s3
        s5 == IF GetOr(source.protocol, "file") # GetOr(destination.protocol, "file")
              THEN s4 - 15 ELSE s4
    IN [compatible |-> s5 >= 70, score |-> s5]

\* check_compatibility(source, destination)
CheckCompatibility(source, destination) ==
    LET supported == SupportedDevices \cup SupportedDatabases
        s1 == IF source.type \notin supported THEN 100 - 30 ELSE 100
        s2 == IF destination.type \notin supported THEN s1 - 30 ELSE s1
        s3 == IF /\ source.type \in SupportedDatabases
                 /\ destination.type \in SupportedDatabases
                 /\ source.type # destination.type
              THEN s2 - 20 ELSE s2
        s4 == IF /\ Truthy(source.os) /\ Truthy(destination.os)
                 /\ source.os # destination.os
              THEN s3 - 10 ELSE s3
        s5 == IF GetOr(source.protocol, "file") # GetOr(destination.protocol, "file")
              THEN s4 - 15 ELSE s4
    IN [compatible |-> s5 >= 70, score |-> s5]

\* Kinds a caller passes: supported devices and databases, the kinds
\* check_capacity tells apart, and no kind at all.
EndpointTypes ==
    {"phone", "computer", "mysql", "postgresql", "local", "external",
     "database", Missing}

Endpoints ==
    [type : EndpointTypes,
     os : {Missing, "", "linux", "windows"},
     protocol : {Missing, "file", "ftp"}]

InitCompatibility ==
    /\ InitCoordinator
    /\ cancel_requested = <<>>
    /\ call \in [fn : {"check_compatibility"}, source : Endpoints,
                 destination : Endpoints]
    /\ result = NoResult

\* The call is answered.
CallCheckCompatibility ==
    /\ call.fn = "check_compatibility"
    /\ result = NoResult
    /\ result' = CheckCompatibility(call.source, call.destination)
    /\ UNCHANGED <<coordinator, cancel_requested, call>>

NextCompatibility == CallCheckCompatibility

SpecCompatibility == InitCompatibility /\ [][NextCompatibility]_vars

Answered(fn) == call.fn = fn /\ result # NoResult

\* C12: identical source and destination endpoints score 100 and are
\* compatible, whatever their kind.
C12_IdenticalEndpoints ==
    Answered("check_compatibility") /\ call.source = call.destination
        => result.score = 100 /\ result.compatible

Deduct(condition, points) == IF condition THEN points ELSE 0

Floor0(n) == IF n < 0 THEN 0 ELSE n

Unsupported(endpoint) ==
    endpoint.type \notin
        {"phone", "computer", "server", "nas", "cloud",
         "mysql", "postgresql", "mongodb", "sqlite", "oracle", "sqlserver"}

\* The deductions both readings of C16 share: database families, os, protocol.
OtherDeductions(s, d) ==
    Deduct(/\ s.type \in SupportedDatabases /\ d.type \in SupportedDatabases
           /\ s.type # d.type, 20)
    + Deduct(/\ s.os \notin {Missing, ""} /\ d.os \notin {Missing, ""}
             /\ s.os # d.os, 10)
    + Deduct((IF s.protocol = Missing THEN "file" ELSE s.protocol)
                 # (IF d.protocol = Missing THEN "file" ELSE d.protocol), 15)

\* C16 as stated: the score is 100 less the deductions, floored at 0, with 30
\* deducted once if either kind is unsupported; compatible iff score >= 70.
C16_DeductedOnce ==
    Answered("check_compatibility") =>
        LET s == call.source
            d == call.destination
        IN /\ result.score =
                  Floor0(100 - Deduct(Unsupported(s) \/ Unsupported(d), 30)
                             - OtherDeductions(s, d))
           /\ result.compatible <=> result.score >= 70

\* C16 as amended: 30 is deducted for each endpoint whose kind is
\* unsupported (60 when both are).
C16_DeductedPerEndpoint ==
    Answered("check_compatibility") =>
        LET s == call.source
            d == call.destination
        IN /\ result.score =
                  Floor0(100 - Deduct(Unsupported(s), 30)
                             - Deduct(Unsupported(d), 30)
                             - OtherDeductions(s, d))
           /\ result.compatible <=> result.score >= 70

\* C16, its case: both kinds unsupported, os and protocol differing, which
\* gives the lowest score there is.
C16_Witness ==
    /\ Answered("check_compatibility")
    /\ Unsupported(call.source) /\ Unsupported(call.destination)
    /\ result.score = 15
    /\ ~result.compatible

----------------------------------------------------------------------------
(* migration_engine.py, analyze_files.  Sizes are counted in MB units of    *)
(* 1024 * 1024 bytes, and every file is a whole number of them, so that     *)
(* total_size // batch_size is the same in MB as in bytes.  A filename is   *)
(* the sequence of the parts its dots separate: <<"notes", "txt">> is       *)
(* notes.txt, <<"README">> has no dot.  A float the code computes from two  *)
(* integers is kept as the fraction in lowest terms, [num, den]: two        *)
(* quotients of integers are the same float when they are the same          *)
(* fraction.                                                                *)

\* 1024 * 1024 bytes
MB == 1

\* The longest manifest.
MaxFiles == 3

RECURSIVE GCD(_, _)
GCD(a, b) == IF b = 0 THEN a ELSE GCD(b, a % b)

\* The float num / den
Fraction(num, den) ==
    LET g == GCD(num, den) IN [num |-> num \div g, den |-> den \div g]

\* str.lower(), on the names the manifests use
Lower(s) ==
    CASE s = "TXT" -> "txt"
      [] s = "NOTES" -> "notes"
      [] OTHER -> s

\* '.' in filename
HasDot(filename) == Len(filename) > 1

\* filename.split('.')[-1].lower()
Ext(filename) == Lower(filename[Len(filename)])

\* _is_compressible(filename)
IsCompressible(filename) ==
    LET compressible_extensions ==
            {"txt", "csv", "json", "xml", "log", "html", "css", "js",
             "doc", "docx", "pdf"}
    IN IF HasDot(filename)
       THEN Ext(filename) \in compressible_extensions
       ELSE FALSE

RECURSIVE SumSizes(_)
\* sum(file_types.values())
SumSizes(d) == IF d = <<>> THEN 0 ELSE d[1].size + SumSizes(Tail(d))

\* _estimate_compression(file_types)
EstimateCompression(file_types) ==
    LET compressible_types ==
            {"txt", "csv", "json", "xml", "log", "html", "css", "js"}
        total_size == SumSizes(file_types)
        total_compressible ==
            SumSizes(SelectSeq(file_types, LAMBDA e : e.id \in compressible_types))
    IN IF total_size = 0
       THEN Fraction(0, 1)
       ELSE \* r * 0.6 + (1 - r) * 0.1, r = total_compressible / total_size
            Fraction(6 * total_compressible + (total_size - total_compressible),
                     10 * total_size)

Max(a, b) == IF a > b THEN a ELSE b

Min(a, b) == IF a < b THEN a ELSE b

\* _calculate_batch_size(total_size, file_count)
CalculateBatchSize(total_size, file_count) ==
    IF total_size < 100 * MB
    THEN [size |-> total_size, files |-> file_count, batches |-> 1]
    ELSE LET batch_size ==
                 IF total_size < 1024 * MB THEN 100 * MB
                 ELSE IF total_size < 1024 * 10 * MB THEN 500 * MB
                 ELSE 1024 * MB
             batches == Max(1, total_size \div batch_size)
             files_per_batch == Max(1, file_count \div batches)
         IN [size_per_batch |-> batch_size,
             files_per_batch |-> files_per_batch,
             total_batches |-> batches,
             recommended_parallel_transfers |-> Min(5, batches)]

\* What analyze_files holds before its loop.
AnalyzeStart ==
    [total_size |-> 0, file_types |-> <<>>,
     largest_file |-> [name |-> <<"">>, size |-> 0],
     compressible_files |-> <<>>]

\* One turn of the loop of analyze_files with file_types[ext] = size in place
\* of the sum: a mutant.
AnalyzeFileOverwriting(acc, file_info) ==
    LET size == file_info.size
        filename == file_info.filename
    IN [total_size |-> acc.total_size + size,
        file_types |->
            IF HasDot(filename)
            THEN DictPut(acc.file_types, Ext(filename),
                         [id |-> Ext(filename), size |-> size])
            ELSE acc.file_types,
        largest_file |->
            IF size > acc.largest_file.size
            THEN [name |-> filename, size |-> size]
            ELSE acc.largest_file,
        compressible_files |->
            IF IsCompressible(filename)
            THEN Append(acc.compressible_files, filename)
            ELSE acc.compressible_files]

\* One turn of the loop of analyze_files.
AnalyzeFile(acc, file_info) ==
    LET size == file_info.size
        filename == file_info.filename
        ext == Ext(filename)
        before == IF DictHas(acc.file_types, ext)
                  THEN DictGet(acc.file_types, ext).size ELSE 0
    IN [total_size |-> acc.total_size + size,
        file_types |->
            IF HasDot(filename)
            THEN DictPut(acc.file_types, ext, [id |-> ext, size |-> before + size])
            ELSE acc.file_types,
        largest_file |->
            IF size > acc.largest_file.size
            THEN [name |-> filename, size |-> size]
            ELSE acc.largest_file,
        compressible_files |->
            IF IsCompressible(filename)
            THEN Append(acc.compressible_files, filename)
            ELSE acc.compressible_files]

RECURSIVE AnalyzeLoop(_, _)
\* for file_info in files
AnalyzeLoop(acc, files) ==
    IF files = <<>> THEN acc
    ELSE AnalyzeLoop(AnalyzeFile(acc, Head(files)), Tail(files))

\* analyze_files(files)
AnalyzeFiles(files) ==
    LET acc == AnalyzeLoop(AnalyzeStart, files)
        estimated_compression == EstimateCompression(acc.file_types)
    IN [status |-> "analyzed",
        total_files |-> Len(files),
        total_size |-> acc.total_size,
        file_types |-> acc.file_types,
        largest_file |-> acc.largest_file,
        compressible_files |-> acc.compressible_files,
        estimated_compression_ratio |-> estimated_compression,
        estimated_size_after_compression |->
            Fraction(acc.total_size
                         * (estimated_compression.den - estimated_compression.num),
                     estimated_compression.den),
        recommended_batch_size |->
            CalculateBatchSize(acc.total_size, Len(files))]

Filenames ==
    {<<"notes", "txt">>, <<"NOTES", "TXT">>, <<"photo", "jpg">>,
     <<"table", "csv">>, <<"scan", "pdf">>, <<"README">>}

\* The files of the manifests: every name in two small sizes, and two names
\* in the sizes that take a manifest across the thresholds of the batch plan.
Files ==
    [filename : Filenames, size : {5 * MB, 10 * MB}]
        \cup [filename : {<<"photo", "jpg">>, <<"table", "csv">>},
              size : {90 * MB, 500 * MB, 4096 * MB}]

\* The manifests a caller passes.
Manifests == UNION {[1..n -> Files] : n \in 0..MaxFiles}

InitAnalysis ==
    /\ InitCoordinator
    /\ cancel_requested = <<>>
    /\ call \in [fn : {"analyze_files"}, files : Manifests]
    /\ result = NoResult

\* The call is answered.
CallAnalyzeFiles ==
    /\ call.fn = "analyze_files"
    /\ result = NoResult
    /\ result' = AnalyzeFiles(call.files)
    /\ UNCHANGED <<coordinator, cancel_requested, call>>

NextAnalysis == CallAnalyzeFiles

SpecAnalysis == InitAnalysis /\ [][NextAnalysis]_vars

\* The manifests with the files of this one, in every order.
Reorderings(files) ==
    {[n \in DOMAIN files |-> files[p[n]]] : p \in Permutations(DOMAIN files)}

\* dict == dict: the same keys with the same values, in whatever order.
SameDict(d, e) == {d[n] : n \in DOMAIN d} = {e[n] : n \in DOMAIN e}

\* C13: for every manifest and every permutation of it, analyze_files
\* returns the same total size, the same per-extension size histogram and
\* the same estimated_compression_ratio.
C13_OrderIndependent ==
    Answered("analyze_files") =>
        \A files \in Reorderings(call.files) :
            LET other == AnalyzeFiles(files)
            IN /\ other.total_size = result.total_size
               /\ SameDict(other.file_types, result.file_types)
               /\ other.estimated_compression_ratio
                      = result.estimated_compression_ratio

\* C13, its case: three files of two extensions, one extension in two
\* spellings, whose orders give the histogram in different key orders.
C13_Witness ==
    /\ Answered("analyze_files")
    /\ call.files = <<[filename |-> <<"photo", "jpg">>, size |-> 90 * MB],
                      [filename |-> <<"notes", "txt">>, size |-> 10 * MB],
                      [filename |-> <<"NOTES", "TXT">>, size |-> 5 * MB]>>
    /\ result.file_types = <<[id |-> "jpg", size |-> 90 * MB],
                             [id |-> "txt", size |-> 15 * MB]>>
    /\ \E files \in Reorderings(call.files) :
           AnalyzeFiles(files).file_types # result.file_types


\* C14: for every total_bytes and file_count the plan holds its fields, with
\* total_batches >= 1 and max_parallel_transfers = min(5, total_batches): one
\* batch below 100MB, and otherwise batches of 100MB, 500MB or 1GB for a
\* total below 1GB, below 10GB, or from 10GB on, with total_batches =
\* max(1, total_bytes div batch_size) and files_per_batch =
\* max(1, file_count div total_batches).
C14_BatchPlan ==
    Answered("analyze_files") =>
        LET plan == result.recommended_batch_size
            total_bytes == result.total_size
            file_count == result.total_files
            batch_size == IF total_bytes < 1024 * MB THEN 100 * MB
                          ELSE IF total_bytes < 10240 * MB THEN 500 * MB
                          ELSE 1024 * MB
        IN /\ {"total_batches", "files_per_batch",
               "recommended_parallel_transfers"} \subseteq DOMAIN plan
           /\ plan.total_batches >= 1
           /\ plan.recommended_parallel_transfers
                  = (IF plan.total_batches < 5 THEN plan.total_batches ELSE 5)
           /\ IF total_bytes < 100 * MB
              THEN plan.total_batches = 1
              ELSE /\ plan.size_per_batch = batch_size
                   /\ plan.total_batches
                          = (IF total_bytes \div batch_size < 1 THEN 1
                             ELSE total_bytes \div batch_size)
                   /\ plan.files_per_batch
                          = (IF file_count \div plan.total_batches < 1 THEN 1
                             ELSE file_count \div plan.total_batches)

RECURSIVE ReportedCompressibleBytes(_)
\* The bytes of the files that analyze_files reports as compressible.
ReportedCompressibleBytes(files) ==
    IF files = <<>> THEN 0
    ELSE (IF IsCompressible(Head(files).filename) THEN Head(files).size ELSE 0)
             + ReportedCompressibleBytes(Tail(files))

\* C17: estimated_compression_ratio is f * 0.6 + (1 - f) * 0.1, f being the
\* fraction of the manifest's total bytes in files reported as compressible;
\* it lies in [0, 1]; txt 10MB + jpg 90MB + csv 5MB gives
\* (15/105) * 0.6 + (90/105) * 0.1.
C17_CompressionRatio ==
    Answered("analyze_files") /\ result.total_size > 0 =>
        LET ratio == result.estimated_compression_ratio
            total_bytes == result.total_size
            compressible == ReportedCompressibleBytes(call.files)
        IN /\ ratio = Fraction(6 * compressible + (total_bytes - compressible),
                               10 * total_bytes)
           /\ 0 <= ratio.num /\ ratio.num <= ratio.den
           /\ call.files = <<[filename |-> <<"notes", "txt">>, size |-> 10 * MB],
                             [filename |-> <<"photo", "jpg">>, size |-> 90 * MB],
                             [filename |-> <<"table", "csv">>, size |-> 5 * MB]>>
                  => ratio = Fraction(15 * 6 + 90, 10 * 105)

----------------------------------------------------------------------------
(* Severity of the capacity status.                                         *)

\* The order healthy < marginal < insufficient < warning < critical.
Severity(status) ==
    CASE status = "healthy" -> 0
      [] status = "marginal" -> 1
      [] status = "insufficient" -> 2
      [] status = "warning" -> 3
      [] status = "critical" -> 4

\* What the device reports once more of the same total is used: used_more
\* further units taken from free, and a percentage that is no lower.
FullerUsages(usage) ==
    {[raises |-> FALSE, total |-> usage.total, used |-> usage.used + used_more,
      free |-> usage.free - used_more, percent |-> percent] :
        used_more \in 0..usage.free,
        percent \in {p \in PercentSamples : p >= usage.percent}}

\* A call of check_capacity that queried a device whose free space is its
\* total less its used space, and was answered.
QueriedCapacity ==
    /\ Answered("check_capacity")
    /\ call.device_type \in {"local", "unknown"}
    /\ ~call.disk_usage.raises
    /\ call.disk_usage.free = call.disk_usage.total - call.disk_usage.used

\* C15: for a fixed total and a fixed required size, with free = total -
\* used, a device that is fuller never has a status of lower severity, under
\* healthy < marginal < insufficient < warning < critical.
C15_SeverityMonotonic ==
    QueriedCapacity =>
        \A fuller \in FullerUsages(call.disk_usage) :
            Severity(CheckCapacity(call.device_type, fuller,
                                   call.required_size).status)
                >= Severity(result.status)

\* C15, its case: a device reported marginal that is insufficient with one
\* more unit used at the same percentage, and warning at 85%.
C15_Witness ==
    /\ QueriedCapacity
    /\ result.status = "marginal"
    /\ call.disk_usage.free = call.required_size
    /\ call.required_size > 0
    /\ \E fuller \in FullerUsages(call.disk_usage) :
           /\ fuller.percent = call.disk_usage.percent
           /\ CheckCapacity(call.device_type, fuller,
                            call.required_size).status = "insufficient"
    /\ \E fuller \in FullerUsages(call.disk_usage) :
           /\ fuller.percent = 850
           /\ CheckCapacity(call.device_type, fuller,
                            call.required_size).status = "warning"

----------------------------------------------------------------------------
(* Progress as the readers of a job see it.                                 *)

\* The progress values a job may show: 0 to 100.
ProgressBounded(objs) ==
    \A j \in DOMAIN objs : 0 <= objs[j].progress /\ objs[j].progress <= 100

\* C18: every job's progress is within 0..100, and the progress that
\* get_migration_status reports for a job id never decreases from one state
\* to the next.
C18_ProgressMonotone ==
    [][/\ ProgressBounded(jobs) /\ ProgressBounded(jobs')
       /\ \A id \in Ids :
              LET before == GetMigrationStatus(id)
                  after == Lookup(active_migrations', ledger', jobs', id)
              IN before # NotFound /\ after # NotFound
                     => after.progress >= before.progress]_vars

----------------------------------------------------------------------------
(* The service under fair scheduling.  Every job runs in a thread of its    *)
(* own (start_migration, lines 185-190): the interpreter lets every thread  *)
(* that can run take its next step, and the clock goes on, which ends every *)
(* time.sleep.  Callers are not bound to submit anything.                   *)

\* Bound: the number of jobs submitted in a behaviour of SpecFair.
MaxFairJobs == 2

\* One step of the thread of job j: run_migration and the log_migration it
\* calls.
RunMigration(j) ==
    \/ SetInProgress(j)
    \/ SetFirstProgress(j)
    \/ Work(j)
    \/ SaveProgress(j)
    \/ SetCompleted(j)
    \/ SetCompletedAt(j)
    \/ SetFullProgress(j)
    \/ LogLoad(j)
    \/ LogOpen(j)
    \/ LogDump(j)
    \/ EvictionSleep(j)
    \/ EvictionTest(j)
    \/ Evict(j)
    \/ SetFailed(j)
    \/ SetError(j)
    \/ SetFailedAt(j)

NextFair ==
    \/ Tick
    \/ StartMigration(MaxFairJobs)
    \/ \E j \in JobIx : SetInProgress(j)
    \/ \E j \in JobIx : SetFirstProgress(j)
    \/ \E j \in JobIx : Work(j)
    \/ \E j \in JobIx : SaveProgress(j)
    \/ \E j \in JobIx : SetCompleted(j)
    \/ \E j \in JobIx : SetCompletedAt(j)
    \/ \E j \in JobIx : SetFullProgress(j)
    \/ \E j \in JobIx : LogLoad(j)
    \/ \E j \in JobIx : LogOpen(j)
    \/ \E j \in JobIx : LogDump(j)
    \/ \E j \in JobIx : EvictionSleep(j)
    \/ \E j \in JobIx : EvictionTest(j)
    \/ \E j \in JobIx : Evict(j)
    \/ \E j \in JobIx : SetFailed(j)
    \/ \E j \in JobIx : SetError(j)
    \/ \E j \in JobIx : SetFailedAt(j)

Fairness ==
    /\ WF_vars(Tick)
    /\ \A j \in 1..MaxFairJobs : WF_vars(RunMigration(j))

SpecFair == Init /\ [][NextFair]_vars /\ Fairness

\* Job j has been submitted.
Submitted(j) == j \in JobIx

\* C19: under fair scheduling of the job threads every submitted job
\* eventually has status completed or failed, whatever the other jobs do.
C19_EveryJobEnds ==
    \A j \in 1..MaxFairJobs :
        Submitted(j)
            ~> (Submitted(j) /\ jobs[j].status \in {"completed", "failed"})

\* C19, its case: a job has completed while the other one, submitted before
\* it, is still at work.
C19_Witness ==
    /\ Len(jobs) = 2
    /\ jobs[2].status = "completed"
    /\ jobs[1].status = "in_progress"

====
